---- MODULE Spec2Model ----
(***************************************************************************)
(* Model of Trashcan-Panda-i2c-Test.ino: the bring-up sequence of setup(), *)
(* the interval-gated sampling and the one-shot power-cycle self-test of   *)
(* loop(), and the bus scanner i2cScan().                                  *)
(*                                                                         *)
(* The vendor drivers (Wire, LIS3DH, VL53L1X, AB1805, MB85RC FRAM) are the *)
(* environment: every call into them returns a value chosen from the set   *)
(* of values the call can return.  The millisecond clock is observed only  *)
(* by millis(); the time that passes between two observations is chosen    *)
(* when the observation is made, and delay(1000) / delay(500) add their    *)
(* length to it.                                                           *)
(***************************************************************************)
EXTENDS Integers, Sequences, FiniteSets, TLC

VARIABLES
    pc,                   \* position of the single thread of control
    haltSite,             \* which while(1) the thread is spinning in
    sensorOnlineTOF,      \* line 40
    sensorOnlineLIS3DH,   \* line 41
    carrierOnline,        \* line 42
    lastSampleTimestamp,  \* line 43
    powerCycleOnce,       \* line 46
    disableModule,        \* level driven on pin D2 (line 23)
    fram,                 \* contents of the non-volatile store
    tempVersion,          \* local of setup(), line 91
    framOps,              \* history: store operations issued by setup()
    bootFram,             \* history: contents of the store at power-up
    versionChecks,        \* history: version checks started
    rtcDetected,          \* history: result of detectChip() in setup()
    clock,                \* the millisecond clock
    cmpNow,               \* history: value of millis() used at line 136
    cmpDiff,              \* history: millis() - lastSampleTimestamp at line 136
    roundTaken,           \* history: line 136 took the branch in this pass
    loopIters,            \* history: number of passes of loop() started
    selfTestRuns,         \* history: times the body at lines 163-199 was entered
    sampled,              \* history: sensors a sample was ever requested from
    roundSampled,         \* history: sensors sampled in the current pass
    stAccel,              \* history: result of accel.setup() in the self-test
    stTof,                \* history: result of distanceSensor.begin() there
    steps,                \* history: steps of setup() and of the self-test
    accelSample,          \* history: result of accel.getSample() in this pass
    scanReturn,           \* where the running i2cScan() returns to
    address,              \* local of i2cScan(), line 206
    nDevices,             \* local of i2cScan(), line 207
    resultStr,            \* local of i2cScan(), line 208
    logLine,              \* the line i2cScan() handed to Log.info
    scanLogs,             \* history: Log.info calls of the running scan
    probed,               \* history: addresses probed by the running scan
    acked,                \* history: probed addresses that answered 0
    busFaultAt            \* history: address that answered 4, 0 if none did

scanVars   == <<scanReturn, address, nDevices, resultStr, logLine, scanLogs,
                probed, acked, busFaultAt>>
healthVars == <<sensorOnlineTOF, sensorOnlineLIS3DH, carrierOnline>>
framVars   == <<fram, tempVersion, framOps, bootFram, versionChecks>>
timeVars   == <<clock, lastSampleTimestamp, cmpNow, cmpDiff, roundTaken>>
loopVars   == <<loopIters, selfTestRuns, sampled, roundSampled, stAccel, stTof>>
auditVars  == <<steps, accelSample>>
vars       == <<pc, haltSite, healthVars, powerCycleOnce, disableModule,
                framVars, rtcDetected, timeVars, loopVars, auditVars,
                scanVars>>

-----------------------------------------------------------------------------
(* Bounds of the model *)

\* Highest bus address probed; the program probes 1..126 (line 211).
LastAddress == 10

\* Number of times the version check is run on one store (SpecRecheck).
MaxChecks == 3

\* Number of passes of loop() explored.
MaxLoops == 3

\* Width of the clock word in the model.  unsigned long is 32 bits wide on
\* the target; the model keeps the modular arithmetic on a narrower word,
\* wide enough for every clock value the bounds above allow.
WordBits == 16

-----------------------------------------------------------------------------
(* Program constants *)

sampleRateMillis  == 2000
FRAMversionNumber == 42
versionAddr       == 0
systemStatusAddr  == 1
currentCountsAddr == 80
ReportCapacity    == 9
BusFault          == 4
SetupSettleMillis == 1000
SetupPauseMillis  == 500
DischargeMillis   == 1000

\* Clock values and differences of clock values are taken modulo this
WordModulus == 2 ^ WordBits

\* Values Wire.endTransmission() returns
ErrorCodes == 0 .. 4

\* Time that may pass between two observations of the clock
ClockSteps == {0, 1, sampleRateMillis}

FramCells == {versionAddr, systemStatusAddr, currentCountsAddr}

\* Store contents the program may find at power-up
InitialStores ==
    { [a \in FramCells |->
          IF a = versionAddr THEN v
          ELSE IF a = systemStatusAddr THEN s ELSE 9]
      : v \in {41, FRAMversionNumber}, s \in {0, 7} }

Min(a, b) == IF a < b THEN a ELSE b

-----------------------------------------------------------------------------
(* Text of the scan report *)

HexDigits ==
    <<"0", "1", "2", "3", "4", "5", "6", "7",
      "8", "9", "A", "B", "C", "D", "E", "F">>

\* "%02X" of a byte
Hex02(n) == <<HexDigits[((n \div 16) % 16) + 1], HexDigits[(n % 16) + 1]>>

\* snprintf(dst, size, ...) keeps at most size-1 characters
snprintf(size, chars) == SubSeq(chars, 1, Min(Len(chars), size - 1))

\* strncat(dst, src, n) appends at most n characters of src
strncat(dst, src, n) == dst \o SubSeq(src, 1, Min(Len(src), n))

FoundHeader == "i2c device(s) found at: "
FaultHeader == "Unknown error at address "
NoneText    == "No I2C devices found"

HexVal(c) == CHOOSE i \in 0 .. 15 : HexDigits[i + 1] = c

\* The addresses a "found" line lists, read back from its text
ReportedAddresses(line) ==
    [i \in 1 .. ((Len(line) - 1) \div 3) |->
        HexVal(line[3 * i - 1]) * 16 + HexVal(line[3 * i])]

\* The address a "fault" line names, read back from its text
FaultAddress(line) == HexVal(line[2]) * 16 + HexVal(line[3])

-----------------------------------------------------------------------------
(* Initial state: the globals as constructed, before setup() *)

Init ==
    /\ pc = "setup"
    /\ haltSite = "none"
    /\ sensorOnlineTOF = FALSE
    /\ sensorOnlineLIS3DH = FALSE
    /\ carrierOnline = FALSE
    /\ lastSampleTimestamp = 0
    /\ powerCycleOnce = TRUE
    /\ disableModule = "unset"
    /\ fram \in InitialStores
    /\ tempVersion = 0
    /\ framOps = <<>>
    /\ bootFram = fram
    /\ versionChecks = 0
    /\ rtcDetected = "none"
    /\ clock = 0
    /\ cmpNow = 0
    /\ cmpDiff = 0
    /\ roundTaken = FALSE
    /\ loopIters = 0
    /\ selfTestRuns = 0
    /\ sampled = {}
    /\ roundSampled = {}
    /\ stAccel = "none"
    /\ stTof = "none"
    /\ steps = <<>>
    /\ accelSample = "none"
    /\ scanReturn = "none"
    /\ address = 0
    /\ nDevices = 0
    /\ resultStr = <<>>
    /\ logLine = <<>>
    /\ scanLogs = 0
    /\ probed = <<>>
    /\ acked = <<>>
    /\ busFaultAt = 0

-----------------------------------------------------------------------------
(* i2cScan() *)

\* Entry of i2cScan(): lines 206-211, returning to ret
CallScan(ret) ==
    /\ pc' = "scan_loop"
    /\ scanReturn' = ret
    /\ address' = 1
    /\ nDevices' = 0
    /\ resultStr' = <<FoundHeader>>
    /\ logLine' = <<>>
    /\ scanLogs' = 0
    /\ probed' = <<>>
    /\ acked' = <<>>
    /\ busFaultAt' = 0

\* Faulty variant of ScanContinues: the last address is left out
ScanContinues_StopsEarly(a) == a < LastAddress

\* The for statement's condition, line 211
ScanContinues(a) == a < LastAddress + 1

\* line 219
IsAck(error) == error = 0

\* Faulty variant of CapReached: the break of line 225 is never taken
CapReached_Never(n) == FALSE

\* line 225
CapReached(n) == n = ReportCapacity

\* Faulty variant of IsBusFault: status 4 is treated like a missing device
IsBusFault_Never(error) == FALSE

\* line 228
IsBusFault(error) == error = BusFault

\* One pass of the for body, lines 216-232
ScanProbe ==
    /\ pc = "scan_loop"
    /\ ScanContinues(address)
    /\ \E error \in ErrorCodes :
         /\ probed' = Append(probed, address)
         /\ acked' = IF error = 0 THEN Append(acked, address) ELSE acked
         /\ busFaultAt' = IF error = 4 THEN address ELSE busFaultAt
         /\ IF IsAck(error)
            THEN /\ resultStr' =
                        strncat(resultStr,
                                snprintf(4, Hex02(address) \o <<" ">>), 4)
                 /\ nDevices' = nDevices + 1
                 /\ IF CapReached(nDevices')
                    THEN /\ address' = address
                         /\ pc' = "scan_report"
                    ELSE /\ address' = (address + 1) % 256
                         /\ pc' = IF ScanContinues(address')
                                  THEN "scan_loop" ELSE "scan_report"
                 /\ UNCHANGED <<logLine, scanLogs>>
            ELSE IF IsBusFault(error)
            THEN /\ resultStr' = <<FaultHeader>> \o Hex02(address)
                 /\ logLine' = resultStr'
                 /\ scanLogs' = scanLogs + 1
                 /\ pc' = "scan_return"
                 /\ UNCHANGED <<address, nDevices>>
            ELSE /\ address' = (address + 1) % 256
                 /\ pc' = IF ScanContinues(address')
                          THEN "scan_loop" ELSE "scan_report"
                 /\ UNCHANGED <<resultStr, nDevices, logLine, scanLogs>>
    /\ UNCHANGED <<haltSite, healthVars, powerCycleOnce, disableModule,
                   framVars, rtcDetected, timeVars, loopVars, scanReturn>>
    /\ UNCHANGED auditVars

\* After the for statement, lines 235-242
ScanReport ==
    /\ pc = "scan_report"
    /\ IF nDevices = 0
       THEN resultStr' = <<NoneText>>
       ELSE resultStr' = resultStr
    /\ logLine' = resultStr'
    /\ scanLogs' = scanLogs + 1
    /\ pc' = "scan_return"
    /\ UNCHANGED <<haltSite, healthVars, powerCycleOnce, disableModule,
                   framVars, rtcDetected, timeVars, loopVars, scanReturn,
                   address, nDevices, probed, acked, busFaultAt>>
    /\ UNCHANGED auditVars

\* Faulty variant of ScanReturn: the caller stops on a scan that failed
ScanReturn_HaltOnFailure ==
    /\ pc = "scan_return"
    /\ IF busFaultAt # 0 \/ nDevices = 0
       THEN /\ pc' = "halted"
            /\ haltSite' = IF scanReturn = "setup_accel"
                            THEN "setup" ELSE "selftest"
       ELSE /\ pc' = scanReturn
            /\ UNCHANGED haltSite
    /\ scanReturn' = "none"
    /\ address' = 0
    /\ nDevices' = 0
    /\ resultStr' = <<>>
    /\ logLine' = <<>>
    /\ scanLogs' = 0
    /\ probed' = <<>>
    /\ acked' = <<>>
    /\ busFaultAt' = 0
    /\ UNCHANGED <<healthVars, powerCycleOnce, disableModule,
                   framVars, rtcDetected, timeVars, loopVars>>
    /\ UNCHANGED auditVars

\* return: the frame of i2cScan() is dropped, the caller goes on
ScanReturn ==
    /\ pc = "scan_return"
    /\ pc' = scanReturn
    /\ scanReturn' = "none"
    /\ address' = 0
    /\ nDevices' = 0
    /\ resultStr' = <<>>
    /\ logLine' = <<>>
    /\ scanLogs' = 0
    /\ probed' = <<>>
    /\ acked' = <<>>
    /\ busFaultAt' = 0
    /\ UNCHANGED <<haltSite, healthVars, powerCycleOnce, disableModule,
                   framVars, rtcDetected, timeVars, loopVars>>
    /\ UNCHANGED auditVars

-----------------------------------------------------------------------------
(* setup() *)

\* lines 60-69
SetupBegin ==
    /\ pc = "setup"
    /\ disableModule' = "LOW"
    /\ clock' = (clock + SetupSettleMillis) % WordModulus
    /\ CallScan("setup_accel")
    /\ UNCHANGED <<haltSite, healthVars, powerCycleOnce, framVars, rtcDetected,
                   lastSampleTimestamp, cmpNow, cmpDiff, roundTaken, loopVars>>
    /\ steps' = steps \o <<"scan">>
    /\ UNCHANGED accelSample

\* Faulty variant of SetupAccel: a failed accel.setup() stops setup() at once
SetupAccel_AbortOnFailure ==
    /\ pc = "setup_accel"
    /\ \E setupSuccess \in BOOLEAN :
         /\ sensorOnlineLIS3DH' =
                IF setupSuccess THEN TRUE ELSE sensorOnlineLIS3DH
         /\ pc' = IF setupSuccess THEN "setup_tof" ELSE "halted"
         /\ haltSite' = IF setupSuccess THEN haltSite ELSE "setup"
    /\ UNCHANGED <<sensorOnlineTOF, carrierOnline, powerCycleOnce,
                   disableModule, framVars, rtcDetected, timeVars, loopVars,
                   scanVars>>
    /\ steps' = steps \o <<"accel">>
    /\ UNCHANGED accelSample

\* lines 72-80
SetupAccel ==
    /\ pc = "setup_accel"
    /\ \E setupSuccess \in BOOLEAN :
         sensorOnlineLIS3DH' =
             IF setupSuccess THEN TRUE ELSE sensorOnlineLIS3DH
    /\ pc' = "setup_tof"
    /\ UNCHANGED <<haltSite, sensorOnlineTOF, carrierOnline, powerCycleOnce,
                   disableModule, framVars, rtcDetected, timeVars, loopVars,
                   scanVars>>
    /\ steps' = steps \o <<"accel">>
    /\ UNCHANGED accelSample

\* lines 83-87
SetupTOF ==
    /\ pc = "setup_tof"
    /\ \E beginOk \in BOOLEAN :
         sensorOnlineTOF' = IF beginOk THEN TRUE ELSE sensorOnlineTOF
    /\ pc' = "fram_get"
    /\ UNCHANGED <<haltSite, sensorOnlineLIS3DH, carrierOnline, powerCycleOnce,
                   disableModule, framVars, rtcDetected, timeVars, loopVars,
                   scanVars>>
    /\ steps' = steps \o <<"tof">>
    /\ UNCHANGED accelSample

\* Faulty variant of FramGet: the store is repaired whatever was read
FramGet_AlwaysRepair ==
    /\ pc = "fram_get"
    /\ tempVersion' = fram[versionAddr]
    /\ framOps' = Append(framOps, "get")
    /\ versionChecks' = versionChecks + 1
    /\ pc' = "fram_erase"
    /\ UNCHANGED <<haltSite, healthVars, powerCycleOnce, disableModule, fram,
                   bootFram, rtcDetected, timeVars, loopVars, scanVars>>
    /\ steps' = steps \o <<"fram">>
    /\ UNCHANGED accelSample

\* lines 90-93 and 104-107
FramGet ==
    /\ pc = "fram_get"
    /\ tempVersion' = fram[versionAddr]
    /\ framOps' = Append(framOps, "get")
    /\ versionChecks' = versionChecks + 1
    /\ IF tempVersion' # FRAMversionNumber
       THEN /\ pc' = "fram_erase"
            /\ UNCHANGED carrierOnline
       ELSE /\ pc' = "setup_rtc"
            /\ carrierOnline' = TRUE
    /\ UNCHANGED <<haltSite, sensorOnlineTOF, sensorOnlineLIS3DH,
                   powerCycleOnce, disableModule, fram, bootFram,
                   rtcDetected, timeVars, loopVars, scanVars>>
    /\ steps' = steps \o <<"fram">>
    /\ UNCHANGED accelSample

\* line 95; the device may not take the writes
FramErase ==
    /\ pc = "fram_erase"
    /\ \E done \in BOOLEAN :
         fram' = IF done THEN [a \in FramCells |-> 0] ELSE fram
    /\ framOps' = Append(framOps, "erase")
    /\ pc' = "fram_put"
    /\ UNCHANGED <<haltSite, healthVars, powerCycleOnce, disableModule,
                   tempVersion, bootFram, versionChecks, rtcDetected, timeVars,
                   loopVars, scanVars>>
    /\ UNCHANGED auditVars

\* line 96; the device may not take the write
FramPut ==
    /\ pc = "fram_put"
    /\ \E done \in BOOLEAN :
         fram' = IF done
                 THEN [fram EXCEPT ![versionAddr] = FRAMversionNumber % 256]
                 ELSE fram
    /\ framOps' = Append(framOps, "put")
    /\ pc' = "fram_verify"
    /\ UNCHANGED <<haltSite, healthVars, powerCycleOnce, disableModule,
                   tempVersion, bootFram, versionChecks, rtcDetected, timeVars,
                   loopVars, scanVars>>
    /\ UNCHANGED auditVars

\* Faulty variant of FramVerify: the value read back is not compared
FramVerify_NoCompare ==
    /\ pc = "fram_verify"
    /\ tempVersion' = fram[versionAddr]
    /\ framOps' = Append(framOps, "get")
    /\ UNCHANGED versionChecks
    /\ carrierOnline' = TRUE
    /\ pc' = "setup_rtc"
    /\ UNCHANGED <<haltSite, sensorOnlineTOF, sensorOnlineLIS3DH,
                   powerCycleOnce, disableModule, fram, bootFram,
                   rtcDetected, timeVars, loopVars, scanVars>>
    /\ UNCHANGED auditVars

\* lines 97-102
FramVerify ==
    /\ pc = "fram_verify"
    /\ tempVersion' = fram[versionAddr]
    /\ framOps' = Append(framOps, "get")
    /\ UNCHANGED versionChecks
    /\ carrierOnline' = ~(tempVersion' # FRAMversionNumber)
    /\ pc' = "setup_rtc"
    /\ UNCHANGED <<haltSite, sensorOnlineTOF, sensorOnlineLIS3DH,
                   powerCycleOnce, disableModule, fram, bootFram,
                   rtcDetected, timeVars, loopVars, scanVars>>
    /\ UNCHANGED auditVars

\* Faulty variant of SetupRTC: line 117 is missing
SetupRTC_NoVeto ==
    /\ pc = "setup_rtc"
    /\ \E detected \in BOOLEAN :
         rtcDetected' = IF detected THEN "yes" ELSE "no"
    /\ pc' = "setup_decide"
    /\ UNCHANGED <<haltSite, healthVars, powerCycleOnce, disableModule,
                   framVars, timeVars, loopVars, scanVars>>
    /\ steps' = steps \o <<"rtc">>
    /\ UNCHANGED accelSample

\* lines 110-118
SetupRTC ==
    /\ pc = "setup_rtc"
    /\ \E detected \in BOOLEAN :
         /\ rtcDetected' = IF detected THEN "yes" ELSE "no"
         /\ carrierOnline' =
                IF detected THEN carrierOnline
                ELSE IF carrierOnline THEN FALSE ELSE carrierOnline
    /\ pc' = "setup_decide"
    /\ UNCHANGED <<haltSite, sensorOnlineTOF, sensorOnlineLIS3DH,
                   powerCycleOnce, disableModule, framVars, timeVars, loopVars,
                   scanVars>>
    /\ steps' = steps \o <<"rtc">>
    /\ UNCHANGED accelSample

\* Faulty variant of SetupDecide: line 120 does not test carrierOnline
SetupDecide_CarrierIgnored ==
    /\ pc = "setup_decide"
    /\ IF sensorOnlineLIS3DH /\ sensorOnlineTOF
       THEN /\ clock' = (clock + SetupPauseMillis) % WordModulus
            /\ pc' = "loop"
            /\ UNCHANGED haltSite
       ELSE /\ pc' = "halted"
            /\ haltSite' = "setup"
            /\ UNCHANGED clock
    /\ UNCHANGED <<healthVars, powerCycleOnce, disableModule, framVars,
                   rtcDetected, lastSampleTimestamp, cmpNow, cmpDiff,
                   roundTaken, loopVars, scanVars>>
    /\ steps' = steps \o <<"decide">>
    /\ UNCHANGED accelSample

\* lines 120-129
SetupDecide ==
    /\ pc = "setup_decide"
    /\ IF sensorOnlineLIS3DH /\ sensorOnlineTOF /\ carrierOnline
       THEN /\ clock' = (clock + SetupPauseMillis) % WordModulus
            /\ pc' = "loop"
            /\ UNCHANGED haltSite
       ELSE /\ pc' = "halted"
            /\ haltSite' = "setup"
            /\ UNCHANGED clock
    /\ UNCHANGED <<healthVars, powerCycleOnce, disableModule, framVars,
                   rtcDetected, lastSampleTimestamp, cmpNow, cmpDiff,
                   roundTaken, loopVars, scanVars>>
    /\ steps' = steps \o <<"decide">>
    /\ UNCHANGED accelSample

\* Faulty variant of HaltSpin: the empty loop is left and loop() is entered
HaltSpin_FallsThrough ==
    /\ pc = "halted"
    /\ pc' = "loop"
    /\ UNCHANGED <<haltSite, healthVars, powerCycleOnce, disableModule,
                   framVars, rtcDetected, timeVars, loopVars, scanVars>>
    /\ UNCHANGED auditVars

\* while(1); at lines 128 and 198
HaltSpin ==
    /\ pc = "halted"
    /\ UNCHANGED vars

-----------------------------------------------------------------------------
(* loop() *)

\* millis(): the clock as observed after `passed` more milliseconds
millis(passed) == (clock + passed) % WordModulus

\* Faulty variant of SampleDue: the comparison admits equality
SampleDue_Inclusive(now, last) ==
    ((now - last) % WordModulus) >= sampleRateMillis

\* The condition of line 136, in unsigned long arithmetic
SampleDue(now, last) == ((now - last) % WordModulus) > sampleRateMillis

\* line 136: entry of loop() and the interval test
LoopCheckInterval ==
    /\ pc = "loop"
    /\ loopIters < MaxLoops
    /\ \E passed \in ClockSteps :
         /\ clock' = millis(passed)
         /\ cmpNow' = clock'
         /\ cmpDiff' = (clock' - lastSampleTimestamp) % WordModulus
         /\ IF SampleDue(clock', lastSampleTimestamp)
            THEN pc' = "stamp" /\ roundTaken' = TRUE
            ELSE pc' = "check_powercycle" /\ roundTaken' = FALSE
    /\ loopIters' = loopIters + 1
    /\ roundSampled' = {}
    /\ UNCHANGED <<haltSite, healthVars, powerCycleOnce, disableModule,
                   framVars, rtcDetected, lastSampleTimestamp, selfTestRuns,
                   sampled, stAccel, stTof, scanVars>>
    /\ accelSample' = "none"
    /\ UNCHANGED steps

\* line 137
LoopStamp ==
    /\ pc = "stamp"
    /\ \E passed \in ClockSteps :
         /\ clock' = millis(passed)
         /\ lastSampleTimestamp' = clock'
    /\ pc' = "sample_tof"
    /\ UNCHANGED <<haltSite, healthVars, powerCycleOnce, disableModule,
                   framVars, rtcDetected, cmpNow, cmpDiff, roundTaken,
                   loopVars, scanVars>>
    /\ UNCHANGED auditVars

\* lines 139-140
SampleTOFStart ==
    /\ pc = "sample_tof"
    /\ IF sensorOnlineTOF
       THEN /\ sampled' = sampled \cup {"TOF"}
            /\ roundSampled' = roundSampled \cup {"TOF"}
            /\ pc' = "ranging"
       ELSE /\ pc' = "sample_accel"
            /\ UNCHANGED <<sampled, roundSampled>>
    /\ UNCHANGED <<haltSite, healthVars, powerCycleOnce, disableModule,
                   framVars, rtcDetected, timeVars, loopIters, selfTestRuns,
                   stAccel, stTof, scanVars>>
    /\ UNCHANGED auditVars

\* lines 141-144: checkForDataReady() answered no
RangingWait ==
    /\ pc = "ranging"
    /\ UNCHANGED vars

\* Faulty variant of RangingDone: ranging is started again after the result
RangingDone_Restart ==
    /\ pc = "ranging"
    /\ pc' = "sample_tof"
    /\ UNCHANGED <<haltSite, healthVars, powerCycleOnce, disableModule,
                   framVars, rtcDetected, timeVars, loopVars, scanVars>>
    /\ UNCHANGED auditVars

\* lines 141 and 145-148: checkForDataReady() answered yes
RangingDone ==
    /\ pc = "ranging"
    /\ pc' = "sample_accel"
    /\ UNCHANGED <<haltSite, healthVars, powerCycleOnce, disableModule,
                   framVars, rtcDetected, timeVars, loopVars, scanVars>>
    /\ UNCHANGED auditVars

\* Faulty variant of SampleAccel: a missed sample marks the sensor offline
SampleAccel_MissClearsFlag ==
    /\ pc = "sample_accel"
    /\ IF sensorOnlineLIS3DH
       THEN /\ \E gotSample \in BOOLEAN :
                 /\ accelSample' = IF gotSample THEN "ok" ELSE "miss"
                 /\ sensorOnlineLIS3DH' = gotSample
            /\ sampled' = sampled \cup {"LIS3DH"}
            /\ roundSampled' = roundSampled \cup {"LIS3DH"}
       ELSE UNCHANGED <<sampled, roundSampled, accelSample,
                        sensorOnlineLIS3DH>>
    /\ pc' = "check_powercycle"
    /\ UNCHANGED <<haltSite, sensorOnlineTOF, carrierOnline, powerCycleOnce,
                   disableModule, framVars, rtcDetected, timeVars, loopIters,
                   selfTestRuns, stAccel, stTof, scanVars>>
    /\ UNCHANGED steps

\* lines 151-159; getSample() may fail, which only changes the line printed
SampleAccel ==
    /\ pc = "sample_accel"
    /\ IF sensorOnlineLIS3DH
       THEN /\ \E gotSample \in BOOLEAN :
                 accelSample' = IF gotSample THEN "ok" ELSE "miss"
            /\ sampled' = sampled \cup {"LIS3DH"}
            /\ roundSampled' = roundSampled \cup {"LIS3DH"}
       ELSE UNCHANGED <<sampled, roundSampled, accelSample>>
    /\ pc' = "check_powercycle"
    /\ UNCHANGED <<haltSite, healthVars, powerCycleOnce, disableModule,
                   framVars, rtcDetected, timeVars, loopIters, selfTestRuns,
                   stAccel, stTof, scanVars>>
    /\ UNCHANGED steps

\* Faulty variant of LoopCheckPowerCycle: the if of line 162 sits inside the
\* if of line 136
LoopCheckPowerCycle_InsideRound ==
    /\ pc = "check_powercycle"
    /\ IF powerCycleOnce /\ roundTaken
       THEN /\ powerCycleOnce' = FALSE
            /\ selfTestRuns' = selfTestRuns + 1
            /\ CallScan("st_powerdown")
            /\ steps' = steps \o <<"disarm", "scan">>
       ELSE /\ pc' = "loop"
            /\ UNCHANGED <<powerCycleOnce, selfTestRuns, scanVars, steps>>
    /\ UNCHANGED <<haltSite, healthVars, disableModule, framVars, rtcDetected,
                   timeVars, loopIters, sampled, roundSampled, stAccel, stTof>>
    /\ UNCHANGED accelSample

\* Faulty variant of LoopCheckPowerCycle: line 163 is missing
LoopCheckPowerCycle_LatchKept ==
    /\ pc = "check_powercycle"
    /\ IF powerCycleOnce
       THEN /\ selfTestRuns' = selfTestRuns + 1
            /\ CallScan("st_powerdown")
            /\ UNCHANGED powerCycleOnce
       ELSE /\ pc' = "loop"
            /\ UNCHANGED <<powerCycleOnce, selfTestRuns, scanVars>>
    /\ UNCHANGED <<haltSite, healthVars, disableModule, framVars, rtcDetected,
                   timeVars, loopIters, sampled, roundSampled, stAccel, stTof>>
    /\ steps' = IF powerCycleOnce THEN steps \o <<"scan">> ELSE steps
    /\ UNCHANGED accelSample

\* lines 162-165, or the return of loop() when the latch is down
LoopCheckPowerCycle ==
    /\ pc = "check_powercycle"
    /\ IF powerCycleOnce
       THEN /\ powerCycleOnce' = FALSE
            /\ selfTestRuns' = selfTestRuns + 1
            /\ CallScan("st_powerdown")
       ELSE /\ pc' = "loop"
            /\ UNCHANGED <<powerCycleOnce, selfTestRuns, scanVars>>
    /\ UNCHANGED <<haltSite, healthVars, disableModule, framVars, rtcDetected,
                   timeVars, loopIters, sampled, roundSampled, stAccel, stTof>>
    /\ steps' = IF powerCycleOnce THEN steps \o <<"disarm", "scan">> ELSE steps
    /\ UNCHANGED accelSample

\* Faulty variant of STPowerDown: the delay of line 168 is missing
STPowerDown_NoSettle ==
    /\ pc = "st_powerdown"
    /\ disableModule' = "HIGH"
    /\ CallScan("st_detect")
    /\ UNCHANGED <<haltSite, healthVars, powerCycleOnce, framVars, rtcDetected,
                   timeVars, loopVars>>
    /\ steps' = steps \o <<"power_off", "scan">>
    /\ UNCHANGED accelSample

\* lines 166-170
STPowerDown ==
    /\ pc = "st_powerdown"
    /\ disableModule' = "HIGH"
    /\ clock' = (clock + DischargeMillis) % WordModulus
    /\ CallScan("st_detect")
    /\ UNCHANGED <<haltSite, healthVars, powerCycleOnce, framVars, rtcDetected,
                   lastSampleTimestamp, cmpNow, cmpDiff, roundTaken, loopVars>>
    /\ steps' = steps \o <<"power_off", "settle", "scan">>
    /\ UNCHANGED accelSample

\* Faulty variant of STDetect: a failed detection clears carrierOnline, as
\* lines 115-118 do in setup()
STDetect_Veto ==
    /\ pc = "st_detect"
    /\ \E detected \in BOOLEAN :
         carrierOnline' = IF detected THEN carrierOnline ELSE FALSE
    /\ pc' = "st_restore"
    /\ UNCHANGED <<haltSite, sensorOnlineTOF, sensorOnlineLIS3DH,
                   powerCycleOnce, disableModule, framVars, rtcDetected,
                   timeVars, loopVars, scanVars>>
    /\ steps' = steps \o <<"detect">>
    /\ UNCHANGED accelSample

\* line 171: the result only selects a log line
STDetect ==
    /\ pc = "st_detect"
    /\ \E detected \in BOOLEAN : pc' = "st_restore"
    /\ UNCHANGED <<haltSite, healthVars, powerCycleOnce, disableModule,
                   framVars, rtcDetected, timeVars, loopVars, scanVars>>
    /\ steps' = steps \o <<"detect">>
    /\ UNCHANGED accelSample

\* Faulty variant of STRestore: line 173 is missing
STRestore_NoRestore ==
    /\ pc = "st_restore"
    /\ CallScan("st_accel")
    /\ UNCHANGED <<haltSite, healthVars, powerCycleOnce, framVars, rtcDetected,
                   timeVars, loopVars, disableModule>>
    /\ steps' = steps \o <<"power_on", "scan">>
    /\ UNCHANGED accelSample

\* lines 172-175
STRestore ==
    /\ pc = "st_restore"
    /\ disableModule' = "LOW"
    /\ CallScan("st_accel")
    /\ UNCHANGED <<haltSite, healthVars, powerCycleOnce, framVars, rtcDetected,
                   timeVars, loopVars>>
    /\ steps' = steps \o <<"power_on", "scan">>
    /\ UNCHANGED accelSample

\* Faulty variant of STAccel: the flag takes the result of accel.setup()
STAccel_ClearsOnFailure ==
    /\ pc = "st_accel"
    /\ \E setupSuccess \in BOOLEAN :
         /\ stAccel' = IF setupSuccess THEN "ok" ELSE "fail"
         /\ sensorOnlineLIS3DH' = setupSuccess
    /\ pc' = "st_tof"
    /\ UNCHANGED <<haltSite, sensorOnlineTOF, carrierOnline, powerCycleOnce,
                   disableModule, framVars, rtcDetected, timeVars, loopIters,
                   selfTestRuns, sampled, roundSampled, stTof, scanVars>>
    /\ steps' = steps \o <<"accel">>
    /\ UNCHANGED accelSample

\* lines 177-185
STAccel ==
    /\ pc = "st_accel"
    /\ \E setupSuccess \in BOOLEAN :
         /\ stAccel' = IF setupSuccess THEN "ok" ELSE "fail"
         /\ sensorOnlineLIS3DH' =
                IF setupSuccess THEN TRUE ELSE sensorOnlineLIS3DH
    /\ pc' = "st_tof"
    /\ UNCHANGED <<haltSite, sensorOnlineTOF, carrierOnline, powerCycleOnce,
                   disableModule, framVars, rtcDetected, timeVars, loopIters,
                   selfTestRuns, sampled, roundSampled, stTof, scanVars>>
    /\ steps' = steps \o <<"accel">>
    /\ UNCHANGED accelSample

\* lines 188-192
STTof ==
    /\ pc = "st_tof"
    /\ \E beginOk \in BOOLEAN :
         /\ stTof' = IF beginOk THEN "ok" ELSE "fail"
         /\ sensorOnlineTOF' = IF beginOk THEN TRUE ELSE sensorOnlineTOF
    /\ pc' = "st_decide"
    /\ UNCHANGED <<haltSite, sensorOnlineLIS3DH, carrierOnline, powerCycleOnce,
                   disableModule, framVars, rtcDetected, timeVars, loopIters,
                   selfTestRuns, sampled, roundSampled, stAccel, scanVars>>
    /\ steps' = steps \o <<"tof">>
    /\ UNCHANGED accelSample

\* lines 193-201: resume (loop() returns) or stop
STDecide ==
    /\ pc = "st_decide"
    /\ IF sensorOnlineLIS3DH /\ sensorOnlineTOF
       THEN /\ pc' = "loop"
            /\ UNCHANGED haltSite
       ELSE /\ pc' = "halted"
            /\ haltSite' = "selftest"
    /\ UNCHANGED <<healthVars, powerCycleOnce, disableModule, framVars,
                   rtcDetected, timeVars, loopVars, scanVars>>
    /\ steps' = steps \o <<"decide">>
    /\ UNCHANGED accelSample

-----------------------------------------------------------------------------
(* The program *)

Next ==
    \/ SetupBegin
    \/ ScanProbe
    \/ ScanReport
    \/ ScanReturn
    \/ SetupAccel
    \/ SetupTOF
    \/ FramGet
    \/ FramErase
    \/ FramPut
    \/ FramVerify
    \/ SetupRTC
    \/ SetupDecide
    \/ LoopCheckInterval
    \/ LoopStamp
    \/ SampleTOFStart
    \/ RangingWait
    \/ RangingDone
    \/ SampleAccel
    \/ LoopCheckPowerCycle
    \/ STPowerDown
    \/ STDetect
    \/ STRestore
    \/ STAccel
    \/ STTof
    \/ STDecide
    \/ HaltSpin

Spec == Init /\ [][Next]_vars

\* A step of the thread whose outcome does not wait for a device
ThreadStep ==
    \/ SetupBegin
    \/ ScanProbe
    \/ ScanReport
    \/ ScanReturn
    \/ SetupAccel
    \/ SetupTOF
    \/ FramGet
    \/ FramErase
    \/ FramPut
    \/ FramVerify
    \/ SetupRTC
    \/ SetupDecide
    \/ LoopCheckInterval
    \/ LoopStamp
    \/ SampleTOFStart
    \/ SampleAccel
    \/ LoopCheckPowerCycle
    \/ STPowerDown
    \/ STDetect
    \/ STRestore
    \/ STAccel
    \/ STTof
    \/ STDecide

\* The thread is never suspended: every statement it stands at is executed.
\* Nothing is assumed of the distance sensor, so the wait of lines 141-144
\* may go on for ever.
SpecSched == Spec /\ WF_vars(ThreadStep)

\* In addition the distance sensor reports data-ready in every ranging
SpecReady == SpecSched /\ WF_vars(RangingDone)

-----------------------------------------------------------------------------
(* The version check run again on the same store *)

\* Store contents the check is tried on
RecheckStores == [FramCells -> {0, 7, 41, FRAMversionNumber}]

\* setup() at line 90 after a power-up: lines 60-87 have run
InitRecheck ==
    /\ pc = "fram_get"
    /\ haltSite = "none"
    /\ sensorOnlineTOF \in BOOLEAN
    /\ sensorOnlineLIS3DH \in BOOLEAN
    /\ carrierOnline = FALSE
    /\ lastSampleTimestamp = 0
    /\ powerCycleOnce = TRUE
    /\ disableModule = "LOW"
    /\ fram \in RecheckStores
    /\ tempVersion = 0
    /\ framOps = <<>>
    /\ bootFram = fram
    /\ versionChecks = 0
    /\ rtcDetected = "none"
    /\ clock = SetupSettleMillis
    /\ cmpNow = 0
    /\ cmpDiff = 0
    /\ roundTaken = FALSE
    /\ loopIters = 0
    /\ selfTestRuns = 0
    /\ sampled = {}
    /\ roundSampled = {}
    /\ stAccel = "none"
    /\ stTof = "none"
    /\ steps = <<"scan", "accel", "tof">>
    /\ accelSample = "none"
    /\ scanReturn = "none"
    /\ address = 0
    /\ nDevices = 0
    /\ resultStr = <<>>
    /\ logLine = <<>>
    /\ scanLogs = 0
    /\ probed = <<>>
    /\ acked = <<>>
    /\ busFaultAt = 0

\* The device is powered up again (line 57) and setup() comes back to
\* line 90: the globals are constructed afresh, the store keeps its contents
PowerUpAgain ==
    /\ pc = "setup_rtc"
    /\ versionChecks < MaxChecks
    /\ pc' = "fram_get"
    /\ carrierOnline' = FALSE
    /\ tempVersion' = 0
    /\ framOps' = <<>>
    /\ UNCHANGED <<haltSite, sensorOnlineTOF, sensorOnlineLIS3DH,
                   powerCycleOnce, disableModule, fram, bootFram,
                   versionChecks, rtcDetected, timeVars, loopVars, scanVars>>
    /\ steps' = <<"scan", "accel", "tof">>
    /\ UNCHANGED accelSample

NextRecheck ==
    \/ FramGet
    \/ FramErase
    \/ FramPut
    \/ FramVerify
    \/ PowerUpAgain

SpecRecheck == InitRecheck /\ [][NextRecheck]_vars

-----------------------------------------------------------------------------
(* Positions *)

ScanPcs == {"scan_loop", "scan_report", "scan_return"}

SetupPcs ==
    {"setup", "setup_accel", "setup_tof", "fram_get", "fram_erase",
     "fram_put", "fram_verify", "setup_rtc", "setup_decide"}

RoundPcs == {"sample_tof", "ranging", "sample_accel"}

\* The thread is still inside setup(), its call of i2cScan() included
InSetup == pc \in SetupPcs \/ (pc \in ScanPcs /\ scanReturn = "setup_accel")

-----------------------------------------------------------------------------
(* Properties *)

\* C1: over any run the body guarded by powerCycleOnce is entered at most
\* once: the latch is up exactly as long as the body has not been entered,
\* so it starts up, goes down on entry and never comes up again.
C1_SelfTestAtMostOnce ==
    /\ selfTestRuns <= 1
    /\ powerCycleOnce <=> (selfTestRuns = 0)

\* C1 witness: a later pass of loop() reaches line 162 after the self-test ran
C1_Witness ==
    /\ pc = "check_powercycle"
    /\ loopIters >= 2
    /\ selfTestRuns = 1
    /\ ~powerCycleOnce

\* C2: from the terminal decision of setup() on, carrierOnline is true
\* exactly when the store holds the expected version (it matched, or the
\* repair was read back) and detectChip() answered yes.
C2_CarrierIsAnd ==
    rtcDetected # "none" =>
        (carrierOnline <=>
            (fram[versionAddr] = FRAMversionNumber /\ rtcDetected = "yes"))

\* C2 witness: the store was repaired and reads back right, the RTC is absent
C2_Witness ==
    /\ pc = "setup_decide"
    /\ framOps = <<"get", "erase", "put", "get">>
    /\ fram[versionAddr] = FRAMversionNumber
    /\ rtcDetected = "no"
    /\ ~carrierOnline

\* C3 (as claimed): a failed re-initialization in the self-test leaves the
\* sensor's flag false and the self-test ends in the halt.
C3_ReinitFailureHalts ==
    /\ stAccel = "fail" => ~sensorOnlineLIS3DH
    /\ stTof = "fail" => ~sensorOnlineTOF
    /\ (stAccel = "fail" \/ stTof = "fail") /\ pc \notin {"st_tof", "st_decide"}
          => pc = "halted"

\* C4: once setup() has ended with one of the three flags false the thread
\* is in the halt, no pass of loop() has started, no sample has been
\* requested and the self-test has not run.
C4_FailedSetupHalts ==
    (~InSetup /\ ~(sensorOnlineLIS3DH /\ sensorOnlineTOF /\ carrierOnline)) =>
        /\ pc = "halted"
        /\ haltSite = "setup"
        /\ loopIters = 0
        /\ sampled = {}
        /\ selfTestRuns = 0
        /\ powerCycleOnce

\* C4 witness: both sensors and the store are fine, only the RTC is absent
C4_Witness ==
    /\ pc = "halted"
    /\ haltSite = "setup"
    /\ sensorOnlineLIS3DH
    /\ sensorOnlineTOF
    /\ fram[versionAddr] = FRAMversionNumber
    /\ rtcDetected = "no"
    /\ ~carrierOnline

\* A scan has logged its line and is about to return
ScanEnded == pc = "scan_return"

\* C5: when an address answers with status 4 the scan ends with that probe:
\* it is the last address probed and the highest, exactly one line is
\* logged, and the line is the fault text naming that address, without any
\* of the addresses acknowledged before it.
C5_BusFaultAborts ==
    busFaultAt # 0 =>
        /\ ScanEnded
        /\ probed[Len(probed)] = busFaultAt
        /\ \A i \in DOMAIN probed : probed[i] <= busFaultAt
        /\ scanLogs = 1
        /\ logLine = <<FaultHeader>> \o Hex02(busFaultAt)
        /\ FaultAddress(logLine) = busFaultAt

\* C5 witness: two devices acknowledged before address 5 answered 4
C5_Witness ==
    /\ ScanEnded
    /\ busFaultAt = 5
    /\ acked = <<2, 4>>
    /\ logLine = <<FaultHeader, "0", "5">>

\* C6: the text under construction and the line logged never list more than
\* nine addresses, and once the ninth acknowledging address is recorded it
\* stays the last address probed.
C6_AtMostNineListed ==
    /\ Len(acked) <= ReportCapacity
    /\ (resultStr # <<>> /\ resultStr[1] = FoundHeader) =>
           Len(ReportedAddresses(resultStr)) <= ReportCapacity
    /\ (logLine # <<>> /\ logLine[1] = FoundHeader) =>
           Len(ReportedAddresses(logLine)) <= ReportCapacity
    /\ Len(acked) >= ReportCapacity =>
           /\ pc \in {"scan_report", "scan_return"}
           /\ probed[Len(probed)] = acked[ReportCapacity]

\* C6 witness: nine devices are listed and the addresses after the ninth
\* were never probed
C6_Witness ==
    /\ ScanEnded
    /\ Len(ReportedAddresses(logLine)) = ReportCapacity
    /\ Len(probed) = ReportCapacity
    /\ Len(probed) < LastAddress

\* C7: a scan that met no status 4 has probed the addresses 1, 2, 3, ... in
\* that order, up to the last address unless nine acknowledged; it logs one
\* line; the line lists exactly the acknowledging addresses, ascending, and
\* nDevices is their number; with no acknowledging address the line is the
\* "no devices" text.
C7_ScanReportsAcks ==
    (ScanEnded /\ busFaultAt = 0) =>
        /\ \A i \in DOMAIN probed : probed[i] = i
        /\ Len(acked) < ReportCapacity => Len(probed) = LastAddress
        /\ scanLogs = 1
        /\ nDevices = Len(acked)
        /\ IF acked = <<>>
           THEN logLine = <<NoneText>>
           ELSE /\ logLine[1] = FoundHeader
                /\ ReportedAddresses(logLine) = acked
                /\ \A i, j \in DOMAIN acked : i < j => acked[i] < acked[j]

\* C7 witness: devices at the third and at the last address, nothing else
C7_Witness ==
    /\ ScanEnded
    /\ busFaultAt = 0
    /\ acked = <<3, LastAddress>>
    /\ ReportedAddresses(logLine) = <<3, LastAddress>>
    /\ nDevices = 2

\* C8: when the store's version byte at power-up differs from the expected
\* version, the check issues get, erase, put, get in this order, and
\* carrierOnline after it is true exactly when the byte read back, which is
\* the byte then stored, equals the expected version.
C8_MismatchRepairs ==
    (pc = "setup_rtc" /\ bootFram[versionAddr] # FRAMversionNumber) =>
        /\ framOps = <<"get", "erase", "put", "get">>
        /\ tempVersion = fram[versionAddr]
        /\ carrierOnline <=> (tempVersion = FRAMversionNumber)

\* C8 witness: the erase went through, the write did not; the read-back fails
C8_Witness ==
    /\ pc = "setup_rtc"
    /\ bootFram[versionAddr] = 41
    /\ framOps = <<"get", "erase", "put", "get">>
    /\ tempVersion = 0
    /\ ~carrierOnline

\* C9: while the store's version byte equals the expected version no step
\* changes the store, and a version check started then issues its get alone
\* and passes; so the check may be repeated any number of times.
C9_MatchLeavesStore ==
    [][ fram[versionAddr] = FRAMversionNumber =>
          /\ fram' = fram
          /\ pc = "fram_get" =>
                /\ pc' = "setup_rtc"
                /\ framOps' = <<"get">>
                /\ carrierOnline' ]_vars

\* C9 witness: the third check of a matching store has passed, the store is
\* as it was at the first power-up, status region included
C9_Witness ==
    /\ pc = "setup_rtc"
    /\ versionChecks >= 3
    /\ framOps = <<"get">>
    /\ carrierOnline
    /\ fram = bootFram
    /\ fram[versionAddr] = FRAMversionNumber
    /\ fram[systemStatusAddr] = 7

\* C10 (as claimed): a pass of loop() takes a sample round exactly when
\* millis() - lastSampleTimestamp >= sampleRateMillis, and during the round
\* lastSampleTimestamp is the clock value that was compared.
C10_InclusiveSameReading ==
    /\ loopIters > 0 => (roundTaken <=> cmpDiff >= sampleRateMillis)
    /\ pc \in RoundPcs => lastSampleTimestamp = cmpNow

\* C10 (amended): a pass of loop() takes a sample round exactly when
\* millis() - lastSampleTimestamp > sampleRateMillis, so not when the two are
\* equal; in the round lastSampleTimestamp is set, before any sample is
\* requested, to a second reading of the clock, which is the compared
\* reading or a later one; samples are requested only in a round.
C10_StrictSecondReading ==
    /\ loopIters > 0 => (roundTaken <=> cmpDiff > sampleRateMillis)
    /\ pc \in RoundPcs =>
          /\ roundTaken
          /\ lastSampleTimestamp = clock
          /\ ((lastSampleTimestamp - cmpNow) % WordModulus) \in ClockSteps
    /\ pc = "stamp" => roundTaken /\ roundSampled = {}
    /\ roundSampled # {} => roundTaken

\* C10 witness: the difference equals the interval and no round is taken
C10_Witness ==
    /\ pc = "check_powercycle"
    /\ loopIters > 0
    /\ cmpDiff = sampleRateMillis
    /\ ~roundTaken
    /\ roundSampled = {}

-----------------------------------------------------------------------------
(* Order of the steps *)

IsPrefix(a, b) == Len(a) <= Len(b) /\ a = SubSeq(b, 1, Len(a))

\* Lines 69, 75, 83, 90-107, 110-112 and 120 in the order of the text
SetupOrder == <<"scan", "accel", "tof", "fram", "rtc", "decide">>

\* The steps of the self-test recorded so far
SelfTestSteps == SubSeq(steps, Len(SetupOrder) + 1, Len(steps))

\* The self-test has reached its decision and left it
SelfTestOver == selfTestRuns > 0 /\ pc \in {"loop", "halted"}

\* C11: setup() runs its steps in the order of the text whatever their
\* outcomes: the terminal decision is reached only after the scan, the
\* accelerometer setup, the distance sensor begin, the version check and the
\* RTC detection have all run, and setup() halts nowhere but in the decision.
C11_SetupAggregates ==
    /\ IsPrefix(SubSeq(steps, 1, Min(Len(steps), Len(SetupOrder))), SetupOrder)
    /\ pc = "setup_decide" =>
          /\ steps = SubSeq(SetupOrder, 1, 5)
          /\ versionChecks = 1
          /\ rtcDetected # "none"
    /\ pc = "halted" => Len(steps) >= Len(SetupOrder)

\* C11 witness: every step of setup() failed and the decision is reached
C11_Witness ==
    /\ pc = "setup_decide"
    /\ ~sensorOnlineLIS3DH
    /\ ~sensorOnlineTOF
    /\ framOps = <<"get", "erase", "put", "get">>
    /\ tempVersion # FRAMversionNumber
    /\ rtcDetected = "no"
    /\ steps = <<"scan", "accel", "tof", "fram", "rtc">>

\* C12 (as claimed): the self-test detects the RTC after power is restored
\* and after the third scan.
C12_DetectAfterRestore ==
    /\ SelfTestOver =>
          SelfTestSteps =
              <<"disarm", "scan", "power_off", "settle", "scan", "power_on",
                "scan", "detect", "accel", "tof", "decide">>
    /\ pc = "st_detect" => disableModule = "LOW"

\* Lines 163-199 in the order of the text
SelfTestOrder ==
    <<"disarm", "scan", "power_off", "settle", "scan", "detect", "power_on",
      "scan", "accel", "tof", "decide">>

\* C12 (amended): the self-test performs disarm, scan, power off, settle
\* delay, scan, RTC detection, power on, scan, accelerometer, distance
\* sensor, decision in this order; the RTC detection runs after the second
\* scan while the power-disable line is still high.
C12_DetectBeforeRestore ==
    /\ selfTestRuns > 0 => IsPrefix(SelfTestSteps, SelfTestOrder)
    /\ SelfTestOver => SelfTestSteps = SelfTestOrder
    /\ pc = "st_detect" =>
          /\ disableModule = "HIGH"
          /\ SelfTestSteps = SubSeq(SelfTestOrder, 1, 5)
    /\ pc = "st_restore" => disableModule = "HIGH"

\* C12 witness: the detection has run, the line is still high, the third
\* scan has not started
C12_Witness ==
    /\ pc = "st_restore"
    /\ disableModule = "HIGH"
    /\ SelfTestSteps =
          <<"disarm", "scan", "power_off", "settle", "scan", "detect">>

-----------------------------------------------------------------------------
(* Frames *)

SelfTestPcs ==
    {"st_powerdown", "st_detect", "st_restore", "st_accel", "st_tof",
     "st_decide"}

SelfTestReturns == {"st_powerdown", "st_detect", "st_accel"}

\* The thread is inside lines 163-199, their calls of i2cScan() included
InSelfTest ==
    pc \in SelfTestPcs \/ (pc \in ScanPcs /\ scanReturn \in SelfTestReturns)

\* The thread is at line 162 with the latch up
SelfTestDue == pc = "check_powercycle" /\ powerCycleOnce

\* C13: no step of the self-test, from line 162 to its decision, changes
\* carrierOnline, lastSampleTimestamp or the store; the test at line 162
\* enters the self-test whenever the latch is up, whether or not line 136
\* took a sample round in this pass.
C13_SelfTestFrame ==
    [][ (SelfTestDue \/ InSelfTest) =>
          /\ carrierOnline' = carrierOnline
          /\ lastSampleTimestamp' = lastSampleTimestamp
          /\ fram' = fram
          /\ tempVersion' = tempVersion
          /\ SelfTestDue =>
                /\ selfTestRuns' = selfTestRuns + 1
                /\ ~powerCycleOnce'
                /\ InSelfTest' ]_vars

\* C13 witness: the self-test ran to its decision in a pass that took no
\* sample round, both re-initializations having failed
C13_Witness ==
    /\ pc = "st_decide"
    /\ ~roundTaken
    /\ lastSampleTimestamp = 0
    /\ stAccel = "fail"
    /\ stTof = "fail"
    /\ carrierOnline

\* C14: no step of a sample round, from line 137 to line 159, changes a
\* health flag or leaves the round for anything but line 162; a missed
\* accelerometer sample is one of these steps.
C14_SampleRoundFrame ==
    [][ (pc = "stamp" \/ pc \in RoundPcs) =>
          /\ healthVars' = healthVars
          /\ haltSite' = haltSite
          /\ (pc' = "check_powercycle" \/ pc' \in RoundPcs) ]_vars

\* C14 witness: the second pass missed its accelerometer sample and has
\* returned; all flags are up and the next pass can start
C14_Witness ==
    /\ pc = "loop"
    /\ loopIters = 2
    /\ accelSample = "miss"
    /\ sensorOnlineLIS3DH
    /\ sensorOnlineTOF
    /\ carrierOnline
    /\ ENABLED LoopCheckInterval

-----------------------------------------------------------------------------
(* Progress *)

\* setup() has returned and loop() has not been entered yet
SetupPassed == pc = "loop" /\ loopIters = 0

\* C15 (as claimed): whenever setup() returns the self-test is triggered.
C15_SelfTestTriggered == SetupPassed ~> (selfTestRuns = 1)

\* The first pass of loop() is before line 162
FirstPassBeforeTest ==
    /\ loopIters = 1
    /\ (pc = "stamp" \/ pc = "check_powercycle" \/ pc \in RoundPcs)
    /\ powerCycleOnce

\* C15 (amended): the self-test starts in the first pass of loop() and in no
\* other: before line 162 of the first pass it has not run, from then on it
\* has run once.  After setup() returns the first pass either triggers it
\* or stays in the ranging wait of line 141; once that wait is over the
\* self-test is triggered.
C15_FirstPassOrWait ==
    /\ [](selfTestRuns = 0 <=> (InSetup \/ haltSite = "setup" \/ SetupPassed
                                 \/ FirstPassBeforeTest))
    /\ [](selfTestRuns <= 1)
    /\ SetupPassed ~> (selfTestRuns = 1 \/ pc = "ranging")
    /\ (loopIters = 1 /\ pc = "sample_accel") ~> (selfTestRuns = 1)

\* C15 witness: the first pass took no sample round and is in the self-test
C15_Witness ==
    /\ loopIters = 1
    /\ ~roundTaken
    /\ pc = "st_powerdown"
    /\ selfTestRuns = 1

\* C16: with a distance sensor that reports data-ready in every ranging,
\* every sample round ends and loop() returns; the wait of lines 141-144 is
\* left by no step but the one taken on data-ready, and waiting on is always
\* possible, so without data-ready nothing else happens.
C16_RoundEndsIfReady ==
    /\ (pc = "stamp") ~> (pc = "loop")
    /\ (pc = "ranging") ~> (pc = "sample_accel")
    /\ [][pc = "ranging" => pc' = "sample_accel"]_vars
    /\ [](pc = "ranging" => ENABLED RangingWait)

\* C16 witness: the first pass waits for the sensor, the self-test not yet run
C16_Witness ==
    /\ pc = "ranging"
    /\ loopIters = 1
    /\ powerCycleOnce
    /\ roundSampled = {"TOF"}

-----------------------------------------------------------------------------
(* Halt, scans, flags and the power-disable line *)

\* C17: the halt is absorbing: a step taken at while(1) changes no variable
\* (flags, latch, timestamp, power-disable line, store, scan and sample
\* records, steps performed) and leaves the program at while(1).
C17_HaltAbsorbing ==
    /\ [][pc = "halted" => vars' = vars]_vars
    /\ [](pc = "halted" => haltSite \in {"setup", "selftest"})
    /\ [](haltSite # "none" => pc = "halted")

\* C17 witness: setup() has stopped after the store had been written
C17_Witness ==
    /\ pc = "halted"
    /\ haltSite = "setup"
    /\ framOps # <<>>
    /\ loopIters = 0

\* The places i2cScan() returns to: lines 69, 165, 170 and 175
ScanCallers == {"setup_accel"} \cup SelfTestReturns

\* What a step of i2cScan() leaves alone, and where it leads
ScanStepFrame ==
    /\ UNCHANGED <<haltSite, healthVars, powerCycleOnce, disableModule,
                   framVars, rtcDetected, timeVars, loopVars, auditVars>>
    /\ pc' \in ScanPcs \cup ScanCallers
    /\ (pc = "scan_return" => pc' = scanReturn)

\* C18: i2cScan() is called from four places and whatever it finds it
\* returns to its caller: while it runs and when it returns no flag, latch,
\* line, store, timestamp or counter changes, no initialization is
\* performed and the program does not halt.
C18_ScanHasNoEffect ==
    /\ [](pc \in ScanPcs => scanReturn \in ScanCallers)
    /\ [][(pc \in ScanPcs) => ScanStepFrame]_vars

\* C18 witness: the scan after power was restored ends on a bus fault
C18_Witness ==
    /\ pc = "scan_return"
    /\ scanReturn = "st_accel"
    /\ busFaultAt # 0
    /\ Len(logLine) > 0
    /\ logLine[1] = FaultHeader

\* loop() is executing
InLoop == ~InSetup /\ pc # "halted" /\ ~SetupPassed

\* No step clears a sensor flag; carrierOnline is written in setup() only
FlagsKept ==
    /\ sensorOnlineTOF => sensorOnlineTOF'
    /\ sensorOnlineLIS3DH => sensorOnlineLIS3DH'
    /\ ~InSetup => carrierOnline' = carrierOnline

\* C19: while loop() executes all three flags are true; a sensor flag never
\* goes from true to false, carrierOnline is not written after setup(), and
\* a sample round asks both sensors.
C19_FlagsStayTrue ==
    /\ [](InLoop => sensorOnlineTOF /\ sensorOnlineLIS3DH /\ carrierOnline)
    /\ [](pc = "ranging" => "TOF" \in roundSampled)
    /\ [](pc = "check_powercycle" /\ roundTaken
            => roundSampled = {"TOF", "LIS3DH"})
    /\ [][FlagsKept]_vars

\* C19 witness: a round sampled both sensors after both re-initializations
\* of the self-test had failed
C19_Witness ==
    /\ pc = "check_powercycle"
    /\ roundTaken
    /\ roundSampled = {"TOF", "LIS3DH"}
    /\ stAccel = "fail"
    /\ stTof = "fail"

\* Power is removed: lines 167-172
PowerRemoved ==
    \/ pc \in {"st_detect", "st_restore"}
    \/ pc \in ScanPcs /\ scanReturn = "st_detect"

\* A sensor is sampled or initialized, or the program has stopped
NeedsPower ==
    pc \in RoundPcs \cup {"setup_accel", "setup_tof", "st_accel", "st_tof",
                          "halted"}

====
